---- MODULE Spec2Model ----
(***************************************************************************)
(* Model of the two-seed movie recommender (src/utils/recommender.py,      *)
(* src/utils/embeddings.py, driven by src/app/app.py).  The state is what  *)
(* one process holds after start-up: the movie table, the embedding        *)
(* matrix, the flat inner-product index, the identifier-to-row mapping,    *)
(* and the record of the recommend calls made.  Row indices are zero-based *)
(* as in the source; row r of a table is element r + 1 of the sequence     *)
(* that models it.                                                         *)
(***************************************************************************)
EXTENDS Integers, Sequences, FiniteSets, TLC

(***************************************************************************)
(* Bounds of the model.                                                    *)
(***************************************************************************)
MaxHead == 2        \* freely chosen leading rows of a catalogue
SmallTail == 2      \* rows of a short patterned tail
FillLen == 40       \* rows of a long patterned tail (catalogue larger than K)
MaxTopN == 2        \* largest top_n a caller passes
HashSlots == 2      \* slots of the scaled-down hash table of a Python set

(***************************************************************************)
(* Program constants.                                                      *)
(***************************************************************************)
K == 40                     \* recommender.py:54  search_similar(emb, k=40)
NEG_SCORE == -1000000       \* score of a placeholder entry of index.search
UnknownId == 999999999      \* an identifier that is in no catalogue

(***************************************************************************)
(* Input domains.  Embeddings are unit vectors of dimension 2, scaled by 5 *)
(* so that the inner products are integers (25 is cosine 1).  A genre      *)
(* string is a sequence of characters: one letter per genre name, names    *)
(* separated by a blank, as clean_genres joins them.                       *)
(***************************************************************************)
MovieKinds ==
    <<[vec |-> <<5, 0>>, genres_str |-> <<"a", " ", "d">>],
      [vec |-> <<0, 5>>, genres_str |-> <<>>],
      [vec |-> <<4, 3>>, genres_str |-> <<"a">>]>>

KindIds == 1..Len(MovieKinds)

Min(x, y) == IF x <= y THEN x ELSE y

Dot(u, v) == u[1] * v[1] + u[2] * v[2]

Range(L) == {L[p] : p \in 1..Len(L)}

\* The elements of L whose key is m, in their order in L.
Pick(L, keys, m) ==
    LET pos == SelectSeq([p \in 1..Len(L) |-> p], LAMBDA p : keys[p] = m)
    IN [q \in 1..Len(pos) |-> L[pos[q]]]

RECURSIVE GroupDesc(_, _, _)
GroupDesc(L, keys, ks) ==
    IF ks = {} THEN <<>>
    ELSE LET m == CHOOSE k \in ks : \A j \in ks : j <= k
         IN Pick(L, keys, m) \o GroupDesc(L, keys, ks \ {m})

RECURSIVE GroupAsc(_, _, _)
GroupAsc(L, keys, ks) ==
    IF ks = {} THEN <<>>
    ELSE LET m == CHOOSE k \in ks : \A j \in ks : k <= j
         IN Pick(L, keys, m) \o GroupAsc(L, keys, ks \ {m})

\* L sorted by key descending (keys[p] is the key of L[p]), elements of
\* equal key keeping their order in L: Python's
\* sorted(L, key=..., reverse=True) is stable.
SortedDesc(L, keys) == GroupDesc(L, keys, Range(keys))

\* L sorted by key ascending, stable.
SortedAsc(L, keys) == GroupAsc(L, keys, Range(keys))

\* list.index(x): position (one-based here) of the first occurrence.
IndexOf(L, x) ==
    LET ps == {p \in 1..Len(L) : L[p] = x}
    IN CHOOSE p \in ps : \A q \in ps : p <= q

\* str.split(): the maximal runs of non-blank characters, in order.
RECURSIVE SplitFrom(_, _, _)
SplitFrom(str, p, cur) ==
    IF p > Len(str) THEN (IF cur = <<>> THEN <<>> ELSE <<cur>>)
    ELSE IF str[p] = " "
         THEN (IF cur = <<>> THEN <<>> ELSE <<cur>>) \o SplitFrom(str, p + 1, <<>>)
         ELSE SplitFrom(str, p + 1, Append(cur, str[p]))

split(str) == SplitFrom(str, 1, <<>>)

\* session is the state of the page's script run (initialize_system not yet
\* returned, returned, or halted by st.stop()); posters holds the results of
\* the poster lookups of the latest script run.
VARIABLES movies_df, cache_file, embeddings, index, id_to_index, built,
          pending, call, prev, session, posters

vars == <<movies_df, cache_file, embeddings, index, id_to_index, built,
          pending, call, prev, session, posters>>

(***************************************************************************)
(* Vector index: faiss.IndexFlatIP behind EmbeddingManager.search_similar. *)
(***************************************************************************)

\* index.search on one query: the inner product of the query with every
\* stored row, the k best by score descending (equal scores: lower row
\* first), and, when fewer than k rows are stored, the remaining entries
\* filled with the placeholder label -1 and the lowest score.  The result
\* always has k entries.
search_similar(query_embedding, k) ==
    LET ntotal == Len(index)
        rows == [p \in 1..ntotal |-> p - 1]
        best == SortedDesc(rows, [p \in 1..ntotal |-> Dot(query_embedding, index[p])])
    IN [scores |-> [p \in 1..k |-> IF p <= ntotal
                                   THEN Dot(query_embedding, index[best[p] + 1])
                                   ELSE NEG_SCORE],
        idxs |-> [p \in 1..k |-> IF p <= ntotal THEN best[p] ELSE -1]]

(***************************************************************************)
(* Python sets of row indices.  A set is modelled by the list that         *)
(* iterating over it yields.  CPython keeps a set of integers in an open   *)
(* addressing hash table: iteration visits the slots in order, an integer  *)
(* sits at (or right after) slot hash(x) mod table size, and of two        *)
(* integers that collide the one inserted first comes first.  Row indices  *)
(* of a real catalogue run into the thousands while the table of an        *)
(* 80-element set has 128 to 512 slots; the model scales the table down to *)
(* HashSlots slots so that collisions occur within its catalogue sizes.    *)
(***************************************************************************)

\* hash() of an integer: the integer itself, except hash(-1) = -2.
PyHash(x) == IF x = -1 THEN -2 ELSE x

Slot(x) == PyHash(x) % HashSlots

\* L without its repeated elements (first occurrences kept, in order).
Dedup(L) ==
    LET pos == SelectSeq([p \in 1..Len(L) |-> p], LAMBDA p : IndexOf(L, L[p]) = p)
    IN [p \in 1..Len(pos) |-> L[pos[p]]]

\* The elements of L in slot order, those of one slot in their order in L.
SlotOrder(L) == SortedAsc(L, [p \in 1..Len(L) |-> Slot(L[p])])

\* set(L): the elements of L inserted one by one into an empty set.
PySet(L) == SlotOrder(Dedup(L))

\* s | t: a copy of s into which the elements of t are inserted in the
\* iteration order of t.
PySetUnion(s, t) == SlotOrder(s \o SelectSeq(t, LAMBDA x : x \notin Range(s)))

(***************************************************************************)
(* Recommendation engine: MovieRecommender.                                *)
(***************************************************************************)

\* known_ids with only the first seed checked.
known_ids_first_only(movie_id1, movie_id2) ==
    movie_id1 \in DOMAIN id_to_index

\* The check of the seed identifiers that opens recommend.
known_ids(movie_id1, movie_id2) ==
    movie_id1 \in DOMAIN id_to_index /\ movie_id2 \in DOMAIN id_to_index

\* _get_combined_genres with the two genre strings joined without a blank.
get_combined_genres_unseparated(df, idx1, idx2) ==
    Range(split(df[idx1 + 1].genres_str \o df[idx2 + 1].genres_str))

\* _get_combined_genres: set((genres1 + " " + genres2).split()).
\* df.loc is label based; the movie table has the default labels 0..N-1.
get_combined_genres(df, idx1, idx2) ==
    Range(split(df[idx1 + 1].genres_str \o <<" ">> \o df[idx2 + 1].genres_str))

\* _genre_bonus: overlap / (len(seed_genres) + 1e-9), kept as the pair of
\* the overlap count and len(seed_genres).
genre_bonus(row, seed_genres) ==
    [num |-> Cardinality(Range(split(row.genres_str)) \cap seed_genres),
     den |-> Cardinality(seed_genres)]

\* The row df.iloc selects for position r: a negative position counts from
\* the end of the table.
IlocRow(df, r) == IF r < 0 THEN Len(df) + r ELSE r

IlocOk(df, r) == IlocRow(df, r) >= 0 /\ IlocRow(df, r) < Len(df)

\* blended_score with the larger of the two similarities.
blended_score_max(i, r1, r2) ==
    LET s1 == IF i \in Range(r1.idxs) THEN r1.scores[IndexOf(r1.idxs, i)] ELSE 0
        s2 == IF i \in Range(r2.idxs) THEN r2.scores[IndexOf(r2.idxs, i)] ELSE 0
    IN IF s1 >= s2 THEN s1 ELSE s2

\* blended_score of candidate i, from the two search results.
blended_score(i, r1, r2) ==
    LET s1 == IF i \in Range(r1.idxs) THEN r1.scores[IndexOf(r1.idxs, i)] ELSE 0
        s2 == IF i \in Range(r2.idxs) THEN r2.scores[IndexOf(r2.idxs, i)] ELSE 0
    IN Min(s1, s2)

\* combined = list(set1 | set2)
candidate_pool(idxs1, idxs2) == PySetUnion(PySet(idxs1), PySet(idxs2))

\* ranked = sorted(combined, key=blended_score, reverse=True)
rank(combined, blended) ==
    SortedDesc(combined, [p \in 1..Len(combined) |-> blended[combined[p]]])

\* ranked = [i for i in ranked if i not in (idx1, idx2)]
remove_seeds(ranked, idx1, idx2) == SelectSeq(ranked, LAMBDA i : i \notin {idx1, idx2})

\* ranked[:top_n] for a positive top_n.
Take(L, n) == SubSeq(L, 1, Min(n, Len(L)))

\* annotate followed by a sort of the records by genre score, descending.
annotate_reranked(df, top, seed_genres) ==
    LET recs == [p \in 1..Len(top) |->
                    LET row == df[IlocRow(df, top[p]) + 1]
                    IN [row |-> IlocRow(df, top[p]), id |-> row.id,
                        genres_str |-> row.genres_str,
                        genre_score |-> genre_bonus(row, seed_genres)]]
    IN SortedDesc(recs, [p \in 1..Len(recs) |-> recs[p].genre_score.num])

\* recs = df.iloc[top].copy() with the genre_score column added: one record
\* per position of top, in the order of top; row is the label the record
\* keeps from the movie table.
annotate(df, top, seed_genres) ==
    [p \in 1..Len(top) |->
        LET row == df[IlocRow(df, top[p]) + 1]
        IN [row |-> IlocRow(df, top[p]), id |-> row.id,
            genres_str |-> row.genres_str,
            genre_score |-> genre_bonus(row, seed_genres)]]

NoCall ==
    [args |-> <<>>, status |-> "none", nsearch |-> 0, idx1 |-> -1, idx2 |-> -1,
     idxs1 |-> <<>>, scores1 |-> <<>>, idxs2 |-> <<>>, scores2 |-> <<>>,
     combined |-> <<>>, blended |-> <<>>, top |-> <<>>, seed_genres |-> {},
     recs |-> <<>>]

\* MovieRecommender.recommend over the movie table df: the record of one
\* call, with what the call computed on the way (nsearch counts the
\* index.search calls it made) and the rows of the returned frame in recs.
recommend_on(df, movie_id1, movie_id2, top_n) ==
    LET args == <<movie_id1, movie_id2, top_n>> IN
    IF ~known_ids(movie_id1, movie_id2)
    THEN [NoCall EXCEPT !.args = args, !.status = "ValueError"]
    ELSE IF movie_id1 \notin DOMAIN id_to_index \/ movie_id2 \notin DOMAIN id_to_index
    THEN [NoCall EXCEPT !.args = args, !.status = "KeyError"]
    ELSE
    LET idx1 == id_to_index[movie_id1]
        idx2 == id_to_index[movie_id2]
    IN
    IF idx1 >= Len(embeddings) \/ idx2 >= Len(embeddings)
    THEN [NoCall EXCEPT !.args = args, !.status = "IndexError",
                        !.idx1 = idx1, !.idx2 = idx2]
    ELSE
    LET emb1 == embeddings[idx1 + 1]
        emb2 == embeddings[idx2 + 1]
        r1 == search_similar(emb1, K)
        r2 == search_similar(emb2, K)
        combined == candidate_pool(r1.idxs, r2.idxs)
        blended == [i \in Range(combined) |-> blended_score(i, r1, r2)]
        ranked == remove_seeds(rank(combined, blended), idx1, idx2)
        top == Take(ranked, top_n)
        searched == [NoCall EXCEPT !.args = args, !.nsearch = 2,
                        !.idx1 = idx1, !.idx2 = idx2,
                        !.idxs1 = r1.idxs, !.scores1 = r1.scores,
                        !.idxs2 = r2.idxs, !.scores2 = r2.scores,
                        !.combined = combined, !.blended = blended,
                        !.top = top]
    IN
    IF \E p \in 1..Len(top) : ~IlocOk(df, top[p])
    THEN [searched EXCEPT !.status = "IndexError"]
    ELSE IF idx1 >= Len(df) \/ idx2 >= Len(df)
    THEN [searched EXCEPT !.status = "KeyError"]
    ELSE
    LET seed_genres == get_combined_genres(df, idx1, idx2)
    IN [searched EXCEPT !.status = "ok", !.seed_genres = seed_genres,
                        !.recs = annotate(df, top, seed_genres)]

recommend(movie_id1, movie_id2, top_n) ==
    recommend_on(movies_df, movie_id1, movie_id2, top_n)

(***************************************************************************)
(* Catalogues.  A catalogue is a head of freely chosen rows followed by a  *)
(* tail whose rows alternate between two kinds (no tail, a short one, or   *)
(* one long enough for the catalogue to exceed K rows).  The field vec of  *)
(* a row is the embedding the sentence encoder produces for the row's      *)
(* combined text.                                                          *)
(***************************************************************************)

\* The identifier of the movie in row r (identifiers are not row numbers).
RowId(r) == 101 + 2 * r

TailLens == {0, SmallTail, FillLen}

\* The pairs of kinds a tail alternates between.
TailPatterns == {<<1, 2>>, <<3, 1>>}

Catalogue(hk, tlen, tk) ==
    LET h == Len(hk) IN
    [p \in 1..(h + tlen) |->
        LET kind == MovieKinds[IF p <= h THEN hk[p] ELSE tk[((p - h) % 2) + 1]]
        IN [id |-> RowId(p - 1), genres_str |-> kind.genres_str, vec |-> kind.vec]]

Catalogues ==
    UNION {{Catalogue(hk, tlen, tk) :
                hk \in [1..h -> KindIds], tlen \in TailLens,
                tk \in TailPatterns} : h \in 1..MaxHead}

Init ==
    /\ movies_df \in Catalogues
    /\ cache_file = <<>>
    /\ embeddings = <<>>
    /\ index = <<>>
    /\ id_to_index = <<>>
    /\ built = FALSE
    /\ pending = <<>>
    /\ call = NoCall
    /\ prev = NoCall
    /\ session = "start"
    /\ posters = <<>>

(***************************************************************************)
(* Operations.                                                             *)
(***************************************************************************)

\* {mid: idx for idx, mid in enumerate(movie_ids)}: a later row with the
\* same identifier replaces an earlier one.
enumerate_dict(movie_ids) ==
    [mid \in Range(movie_ids) |->
        CHOOSE r \in 0..(Len(movie_ids) - 1) :
            /\ movie_ids[r + 1] = mid
            /\ \A q \in (r + 1)..(Len(movie_ids) - 1) : movie_ids[q + 1] # mid]

\* initialize_system -> EmbeddingManager.build_embeddings(texts, movie_ids)
\* and _build_index, run once per process: the mapping from the identifier
\* list (a later row with the same identifier replaces an earlier one), the
\* matrix from the cache file if there is one and from the encoder
\* otherwise (then saved to the cache file), the index over the matrix.
build_embeddings ==
    /\ ~built
    /\ LET movie_ids == [p \in 1..Len(movies_df) |-> movies_df[p].id]
           texts == [p \in 1..Len(movies_df) |-> movies_df[p].vec]
           matrix == IF cache_file # <<>> THEN cache_file ELSE texts
       IN /\ id_to_index' = enumerate_dict(movie_ids)
          /\ embeddings' = matrix
          /\ cache_file' = matrix
          /\ index' = matrix
    /\ built' = TRUE
    /\ UNCHANGED <<movies_df, pending, call, prev, session, posters>>

\* The identifiers a caller passes: those of the first and of the last row
\* of the catalogue, and one that is in no catalogue.
QueryIds == {movies_df[1].id, movies_df[Len(movies_df)].id, UnknownId}

\* A kept result is comparable with a request for the same two seeds (in
\* either order) and the same top_n.
Comparable(kept, args) ==
    kept.args = args \/ kept.args = <<args[2], args[1], args[3]>>

\* The caller chooses the two seeds and top_n of the next request.  The
\* result of the previous request is no longer shown; a kept result stays
\* as long as it is comparable with the new request.
Select(movie_id1, movie_id2, top_n) ==
    /\ built
    /\ pending = <<>>
    /\ pending' = <<movie_id1, movie_id2, top_n>>
    /\ call' = NoCall
    /\ prev' = IF Comparable(prev, pending') THEN prev ELSE NoCall
    /\ UNCHANGED <<movies_df, cache_file, embeddings, index, id_to_index, built,
                   session, posters>>

\* Recommend with the first seed's embedding overwritten in place by the
\* second seed's (emb1 is a view of the matrix, not a copy).
Recommend_inplace ==
    /\ built
    /\ pending # <<>>
    /\ call' = recommend(pending[1], pending[2], pending[3])
    /\ pending' = <<>>
    /\ embeddings' = IF call'.nsearch = 2
                     THEN [embeddings EXCEPT ![call'.idx1 + 1] = embeddings[call'.idx2 + 1]]
                     ELSE embeddings
    /\ UNCHANGED <<movies_df, cache_file, index, id_to_index, built, prev,
                   session, posters>>

\* Recommend with the genre_score column computed on the movie table itself
\* instead of on the copy of the returned rows.
Recommend_shared_column ==
    /\ built
    /\ pending # <<>>
    /\ call' = recommend(pending[1], pending[2], pending[3])
    /\ pending' = <<>>
    /\ movies_df' = IF call'.status = "ok"
                     THEN [p \in 1..Len(movies_df) |->
                            [id |-> movies_df[p].id,
                             genres_str |-> movies_df[p].genres_str,
                             vec |-> movies_df[p].vec,
                             genre_score |-> genre_bonus(movies_df[p], call'.seed_genres)]]
                     ELSE movies_df
    /\ UNCHANGED <<cache_file, embeddings, index, id_to_index, built, prev,
                   session, posters>>

\* The call recommender.recommend(movie_id1, movie_id2, top_n) for the
\* pending request.
Recommend ==
    /\ built
    /\ pending # <<>>
    /\ call' = recommend(pending[1], pending[2], pending[3])
    /\ pending' = <<>>
    /\ UNCHANGED <<movies_df, cache_file, embeddings, index, id_to_index, built, prev,
                   session, posters>>

\* The caller puts the result of the latest call aside for a later
\* comparison.
Keep ==
    /\ call.status # "none"
    /\ prev' = call
    /\ call' = NoCall
    /\ UNCHANGED <<movies_df, cache_file, embeddings, index, id_to_index, built,
                   pending, session, posters>>

\* The process ends and a new one starts: everything held in memory is
\* gone, the cache file stays.
Restart ==
    /\ built
    /\ embeddings' = <<>>
    /\ index' = <<>>
    /\ id_to_index' = <<>>
    /\ built' = FALSE
    /\ pending' = <<>>
    /\ call' = NoCall
    /\ prev' = NoCall
    /\ session' = "start"
    /\ posters' = <<>>
    /\ UNCHANGED <<movies_df, cache_file>>

Next ==
    \/ build_embeddings
    \/ \E a \in QueryIds, b \in QueryIds, n \in 1..MaxTopN : Select(a, b, n)
    \/ Recommend
    \/ Keep
    \/ Restart

Spec == Init /\ [][Next]_vars

(***************************************************************************)
(* The catalogue as the data loader produces it, and as it changes between *)
(* two runs of the process while the embedding cache file stays.           *)
(***************************************************************************)

\* load_movie_data: movies.merge(keywords_df, on='id', how='left').  A movie
\* row appears once when no keyword row or one keyword row has its id, and
\* once per keyword row when several have it; the result is numbered anew.
RECURSIVE load_movie_data(_, _)
load_movie_data(movies, keyword_ids) ==
    IF movies = <<>> THEN <<>>
    ELSE LET n == Cardinality({p \in 1..Len(keyword_ids) :
                                  keyword_ids[p] = Head(movies).id})
         IN [p \in 1..(IF n = 0 THEN 1 ELSE n) |-> Head(movies)]
                \o load_movie_data(Tail(movies), keyword_ids)

\* The id columns of keywords.csv: no row, one row or two rows for the
\* first movie, two rows for the last one.
KeywordFiles(movies) ==
    {<<>>, <<movies[1].id>>, <<movies[1].id, movies[1].id>>,
     <<movies[Len(movies)].id, movies[Len(movies)].id>>}

\* The catalogues of fewer than K movies.
SmallCatalogues == {c \in Catalogues : Len(c) < K}

LoadedCatalogues ==
    UNION {{load_movie_data(movies, kw) : kw \in KeywordFiles(movies)} :
               movies \in SmallCatalogues}

InitData ==
    /\ movies_df \in LoadedCatalogues
    /\ cache_file = <<>>
    /\ embeddings = <<>>
    /\ index = <<>>
    /\ id_to_index = <<>>
    /\ built = FALSE
    /\ pending = <<>>
    /\ call = NoCall
    /\ prev = NoCall
    /\ session = "start"
    /\ posters = <<>>

\* The catalogue a later run of load_movie_data returns after the data
\* files changed: one more movie has reached min_votes, or the last movie
\* is no longer in the file.
UpdatedCatalogues(df) ==
    {Append(df, [id |-> RowId(Len(df)),
                 genres_str |-> MovieKinds[1].genres_str,
                 vec |-> MovieKinds[1].vec])}
        \cup (IF Len(df) > 1 THEN {SubSeq(df, 1, Len(df) - 1)} ELSE {})

\* The process ends, the data files change, and a new process starts:
\* load_data reads the new catalogue, the cache file written by the earlier
\* run stays.  (Modelled for a cache written for the catalogue before the
\* change.)
ReloadData ==
    /\ built
    /\ Len(cache_file) = Len(movies_df)
    /\ movies_df' \in UpdatedCatalogues(movies_df)
    /\ embeddings' = <<>>
    /\ index' = <<>>
    /\ id_to_index' = <<>>
    /\ built' = FALSE
    /\ pending' = <<>>
    /\ call' = NoCall
    /\ prev' = NoCall
    /\ session' = "start"
    /\ posters' = <<>>
    /\ UNCHANGED cache_file

NextData ==
    \/ build_embeddings
    \/ \E a \in QueryIds, b \in QueryIds, n \in 1..MaxTopN : Select(a, b, n)
    \/ Recommend
    \/ Restart
    \/ ReloadData

SpecData == InitData /\ [][NextData]_vars

(***************************************************************************)
(* The page: initialize_system with the poster client, and the script runs *)
(* of main that look posters up.                                           *)
(***************************************************************************)

\* What the poster service does when the client is constructed: the token
\* is not set, the configuration request fails (HTTP error status, timeout,
\* a reply without "images"), or the configuration is served.
ServiceStates ==
    {"no_token", "config_http_error", "config_timeout", "config_invalid", "up"}

\* TMDBClient(): "ready", or the exception __init__ raises.
TMDBClient(service) ==
    IF service = "no_token" THEN "ValueError"
    ELSE IF service \in {"config_http_error", "config_timeout", "config_invalid"}
         THEN "RuntimeError"
         ELSE "ready"

\* What the poster service answers to one image request.
Responses ==
    {"http_error", "timeout", "no_posters_field", "empty_posters", "poster"}

\* The answers to the two kinds of lookups of a script run: at least one
\* of the two is a poster.
ResponsePairs ==
    {<<r, "poster">> : r \in Responses} \cup {<<"poster", r>> : r \in Responses}

None == <<>>

\* get_movie_poster without the try/except around the request.
get_movie_poster_uncaught(tmdb_id, response) ==
    [id |-> tmdb_id,
     value |-> IF response = "poster" THEN <<"secure_base_url", "w500", tmdb_id>>
               ELSE None,
     raised |-> response \in {"http_error", "timeout"}]

\* TMDBClient.get_movie_poster(tmdb_id): requests.get and raise_for_status
\* run inside try, any exception is swallowed; the URL of the first poster
\* if data.get("posters") is a non-empty list, None otherwise.
get_movie_poster(tmdb_id, response) ==
    LET raises_in_try == response \in {"http_error", "timeout"}
        posters_field == IF response = "poster" THEN <<tmdb_id>> ELSE <<>>
    IN [id |-> tmdb_id,
        value |-> IF ~raises_in_try /\ posters_field # <<>>
                  THEN <<"secure_base_url", "w500", posters_field[1]>>
                  ELSE None,
        raised |-> FALSE]

\* The catalogues of the page: a head and a short tail.
AppCatalogues ==
    UNION {{Catalogue(hk, SmallTail, <<1, 2>>) : hk \in [1..h -> KindIds]} :
               h \in 1..MaxHead}

InitApp ==
    /\ movies_df \in AppCatalogues
    /\ cache_file = <<>>
    /\ embeddings = <<>>
    /\ index = <<>>
    /\ id_to_index = <<>>
    /\ built = FALSE
    /\ pending = <<>>
    /\ call = NoCall
    /\ prev = NoCall
    /\ session = "start"
    /\ posters = <<>>

\* initialize_system(movies_df), on the first script run and again on every
\* run after one that was halted (st.cache_resource keeps nothing of a run
\* that did not return): build_embeddings, the recommender, then
\* TMDBClient(); if that raises, st.stop() halts the script and the
\* embedding manager and recommender just built are dropped.  The cache
\* file written by build_embeddings stays.
initialize_system(service) ==
    /\ session # "ready"
    /\ ~built
    /\ LET movie_ids == [p \in 1..Len(movies_df) |-> movies_df[p].id]
           texts == [p \in 1..Len(movies_df) |-> movies_df[p].vec]
           matrix == IF cache_file # <<>> THEN cache_file ELSE texts
       IN /\ cache_file' = matrix
          /\ IF TMDBClient(service) = "ready"
             THEN /\ id_to_index' = enumerate_dict(movie_ids)
                  /\ embeddings' = matrix
                  /\ index' = matrix
                  /\ built' = TRUE
                  /\ session' = "ready"
             ELSE /\ id_to_index' = <<>>
                  /\ embeddings' = <<>>
                  /\ index' = <<>>
                  /\ built' = FALSE
                  /\ session' = "stopped"
    /\ posters' = <<>>
    /\ UNCHANGED <<movies_df, pending, call, prev>>

\* The identifiers main passes: those of titles chosen from the catalogue.
AppQueryIds == {movies_df[1].id, movies_df[Len(movies_df)].id}

\* The poster lookups of one script run for the identifiers ids, the k-th
\* lookup answered by responses[k] (responses repeating from its start).
lookups(ids, responses) ==
    [k \in 1..Len(ids) |->
        get_movie_poster(ids[k], responses[((k - 1) % Len(responses)) + 1])]

\* A script run of main after a selection: the posters of the two selected
\* movies are looked up and the button is shown.  A lookup that raised
\* would end the script run before the button.
AppSelect(movie_id1, movie_id2, top_n, responses) ==
    /\ session = "ready"
    /\ pending = <<>>
    /\ posters' = lookups(<<movie_id1, movie_id2>>, responses)
    /\ pending' = IF \E k \in 1..Len(posters') : posters'[k].raised
                  THEN <<>>
                  ELSE <<movie_id1, movie_id2, top_n>>
    /\ call' = NoCall
    /\ UNCHANGED <<movies_df, cache_file, embeddings, index, id_to_index, built,
                   prev, session>>

\* The script run after the button is pressed: the posters of the selected
\* movies again, recommender.recommend, then the poster of every returned
\* record.  A lookup of a selected movie that raised would end the script
\* run before recommend is called; an exception of recommend is reported by
\* st.error.
AppRecommend(responses) ==
    /\ session = "ready"
    /\ pending # <<>>
    /\ IF \E k \in 1..2 : get_movie_poster(pending[k], responses[k]).raised
       THEN /\ call' = NoCall
            /\ posters' = lookups(<<pending[1], pending[2]>>, responses)
       ELSE /\ call' = recommend(pending[1], pending[2], pending[3])
            /\ posters' = lookups(<<pending[1], pending[2]>>, responses)
                  \o lookups([p \in 1..Len(call'.recs) |-> call'.recs[p].id],
                              <<responses[2], responses[1]>>)
    /\ pending' = <<>>
    /\ UNCHANGED <<movies_df, cache_file, embeddings, index, id_to_index, built,
                   prev, session>>

NextApp ==
    \/ \E service \in ServiceStates : initialize_system(service)
    \/ \E a \in AppQueryIds, b \in AppQueryIds, n \in 1..MaxTopN,
          responses \in ResponsePairs : AppSelect(a, b, n, responses)
    \/ \E responses \in ResponsePairs : AppRecommend(responses)
    \/ Restart

SpecApp == InitApp /\ [][NextApp]_vars

(***************************************************************************)
(* Properties.                                                             *)
(***************************************************************************)

Swapped(args) == <<args[2], args[1], args[3]>>

\* The rows of the movie table.
Rows == 0..(Len(movies_df) - 1)

\* The movie rows of the two neighbour lists of a call, the seeds removed.
Eligible(c) == ((Range(c.idxs1) \cup Range(c.idxs2)) \cap Rows) \ {c.idx1, c.idx2}

\* C1: no record returned by recommend is the movie of a seed: neither a
\* seed's row nor a seed's identifier appears in the returned list.
C1_SeedExclusion ==
    call.status = "ok" =>
        \A p \in 1..Len(call.recs) :
            /\ call.recs[p].row \notin {call.idx1, call.idx2}
            /\ call.recs[p].id \notin {call.args[1], call.args[2]}

\* C2: recommend returns exactly min(top_n, E) records, E the number of
\* distinct movie rows in the two neighbour lists without the seed rows.
C2_ExactCount ==
    call.status = "ok" =>
        Len(call.recs) = Min(call.args[3], Cardinality(Eligible(call)))

\* C4: the returned list is in blended-score descending order, and entries
\* of equal blended score are in ascending row-index order.
C4_TieOrder ==
    call.status = "ok" =>
        \A p, q \in 1..Len(call.top) :
            p < q =>
                /\ call.blended[call.top[p]] >= call.blended[call.top[q]]
                /\ call.blended[call.top[p]] = call.blended[call.top[q]]
                       => call.top[p] < call.top[q]

\* C5: recommend(a, b, n) and recommend(b, a, n) return the same list: the
\* same movies in the same order with the same genre scores.
C5_Symmetry ==
    (prev.status = "ok" /\ call.status = "ok" /\ prev.args = Swapped(call.args))
        => prev.recs = call.recs

IsSearchResult(idxs, scores) ==
    /\ Len(idxs) = Min(K, Len(index))
    /\ Len(scores) = Len(idxs)
    /\ \A p \in 1..Len(idxs) : idxs[p] \in Rows
    /\ \A p \in 1..(Len(scores) - 1) : scores[p] >= scores[p + 1]

\* C10: a search with k = 40 over N indexed vectors returns exactly
\* min(k, N) entries, each a valid row in 0..N-1, by score descending.
C10_SearchLength ==
    call.nsearch = 2 =>
        /\ IsSearchResult(call.idxs1, call.scores1)
        /\ IsSearchResult(call.idxs2, call.scores2)

\* C3: with a seed identifier that is not in the mapping, recommend fails
\* with the unknown-id error, has made no index query and returns nothing.
C3_UnknownIdFailsFirst ==
    (call.status # "none" /\ (call.args[1] \notin DOMAIN id_to_index
                              \/ call.args[2] \notin DOMAIN id_to_index))
        => (call.status = "ValueError" /\ call.nsearch = 0 /\ call.recs = <<>>)

C3_Witness ==
    /\ call.status = "ValueError"
    /\ call.args[1] \in DOMAIN id_to_index
    /\ call.args[2] = UnknownId

\* The score s that list (idxs, scores) gives candidate i, 0 if it is absent.
ListScore(i, idxs, scores, s) ==
    IF i \in Range(idxs)
    THEN \A p \in 1..Len(idxs) : idxs[p] = i => scores[p] = s
    ELSE s = 0

\* C6: the blended score of every candidate of the pool is the minimum of
\* the scores the two searches returned for it, a search that did not
\* return it counting as 0; a candidate of one list only is never above 0.
C6_BlendedIsMin ==
    call.nsearch = 2 =>
        \A i \in Range(call.combined) :
            /\ \E s1 \in Range(call.scores1) \cup {0}, s2 \in Range(call.scores2) \cup {0} :
                /\ ListScore(i, call.idxs1, call.scores1, s1)
                /\ ListScore(i, call.idxs2, call.scores2, s2)
                /\ call.blended[i] = Min(s1, s2)
            /\ (i \notin Range(call.idxs1) \/ i \notin Range(call.idxs2))
                   => call.blended[i] <= 0

C6_Witness ==
    /\ call.status = "ok"
    /\ \E i \in Range(call.combined) : i \in Range(call.idxs1) /\ i \notin Range(call.idxs2)
    /\ \E i \in Range(call.combined) : call.blended[i] > 0 /\ i \notin {call.idx1, call.idx2}

Retagged(df) ==
    {[p \in 1..Len(df) |-> [df[p] EXCEPT !.genres_str = <<"a">>]],
     [p \in 1..Len(df) |->
        [df[p] EXCEPT !.genres_str = MovieKinds[((p + 1) % Len(MovieKinds)) + 1].genres_str]]}

RowsOf(recs) == [p \in 1..Len(recs) |-> recs[p].row]

C9_GenreScore ==
    call.status = "ok" =>
        LET seedGenreSet == Range(split(movies_df[call.idx1 + 1].genres_str))
                                \cup Range(split(movies_df[call.idx2 + 1].genres_str))
        IN \A p \in 1..Len(call.recs) :
              LET gs == call.recs[p].genre_score
                  tokens == Range(split(call.recs[p].genres_str))
              IN /\ gs.num = Cardinality(tokens \cap seedGenreSet)
                 /\ gs.den = Cardinality(seedGenreSet)
                 /\ 0 <= gs.num /\ gs.num <= gs.den
                 /\ seedGenreSet = {} => gs.num = 0

C9_Witness ==
    /\ call.status = "ok"
    /\ \E p \in 1..Len(call.recs) :
          /\ call.recs[p].genre_score.num > 0
          /\ call.recs[p].genre_score.num < call.recs[p].genre_score.den

C15_NoDuplicateRows ==
    call.status = "ok" =>
        /\ \A p, q \in 1..Len(call.combined) :
              p # q => call.combined[p] # call.combined[q]
        /\ \A p, q \in 1..Len(call.recs) :
              p # q => /\ call.recs[p].row # call.recs[q].row
                       /\ call.recs[p].id # call.recs[q].id

\* C12: once build_embeddings has run, the identifier-to-row mapping is a
\* bijection between the identifiers of the catalogue and the rows
\* 0..N-1 of the embedding matrix: its keys are the catalogue's
\* identifiers, every mapped row exists in the matrix, every row of the
\* matrix and of the catalogue is mapped by exactly one identifier; and a
\* call resolves its seeds with this mapping.
C12_MappingBijection ==
    built =>
        /\ DOMAIN id_to_index = {movies_df[p].id : p \in 1..Len(movies_df)}
        /\ Len(embeddings) = Len(movies_df)
        /\ \A mid \in DOMAIN id_to_index :
              id_to_index[mid] \in 0..(Len(embeddings) - 1)
        /\ \A r \in 0..(Len(embeddings) - 1) :
              Cardinality({mid \in DOMAIN id_to_index : id_to_index[mid] = r}) = 1
        /\ call.nsearch = 2 =>
              /\ call.idx1 = id_to_index[call.args[1]]
              /\ call.idx2 = id_to_index[call.args[2]]

\* C13: an embedding matrix that is not aligned one row per supplied movie
\* identifier does not survive build_embeddings (the build fails), and no
\* recommend call ends in an index or key error or returns records
\* computed from a misaligned matrix.
C13_MisalignmentFailsAtStartup ==
    /\ built => Len(embeddings) = Len(movies_df)
    /\ call.status \notin {"IndexError", "KeyError"}
    /\ call.status = "ok" => Len(embeddings) = Len(movies_df)

\* C14 (as the code has it): a poster lookup never raises and gives None
\* whenever the service does not return a poster (HTTP error, timeout,
\* missing or empty posters field); whatever the lookups of a script run
\* returned, the button is reached after a selection and recommend's list
\* is produced after the button, with one lookup per returned record.  The
\* page is halted only by a failed construction of the poster client.
C14_LookupNeverBlocks ==
    /\ \A mid \in AppQueryIds, r \in Responses :
          /\ ~get_movie_poster(mid, r).raised
          /\ r # "poster" => get_movie_poster(mid, r).value = None
    /\ \A k \in 1..Len(posters) : ~posters[k].raised
    /\ (posters # <<>> /\ pending = <<>>)
          => (call.status = "ok" /\ Len(posters) = Len(call.recs) + 2)
    /\ (posters # <<>> /\ pending # <<>>) => Len(posters) = 2
    /\ session = "stopped" => (~built /\ pending = <<>> /\ call = NoCall)

C14_Witness ==
    /\ call.status = "ok"
    /\ Len(call.recs) >= 2
    /\ \E k \in 1..Len(posters) : posters[k].value = None
    /\ \E k \in 1..Len(posters) : posters[k].value # None

\* C14: a poster lookup never raises and gives None when nothing is found,
\* and no state of the poster service, the failure of its initialization
\* included, blocks the production of a recommendation list: once
\* initialize_system has run, the recommender is there to be called.
C14_PosterServiceNeverBlocks ==
    /\ \A mid \in AppQueryIds, r \in Responses :
          /\ ~get_movie_poster(mid, r).raised
          /\ r # "poster" => get_movie_poster(mid, r).value = None
    /\ \A k \in 1..Len(posters) : ~posters[k].raised
    /\ session # "start" => (session = "ready" /\ built)

====
